---- MODULE Spec2Model ----
(***************************************************************************)
(* A model of mecs: component storages, entities, and the world with its   *)
(* entity table, predicate indices and predicate iterators.                *)
(***************************************************************************)
EXTENDS Integers, Sequences, FiniteSets, Bags, TLC

(***************************************************************************)
(* Bounds of the model                                                     *)
(***************************************************************************)
\* World::add is modelled while next_entity_id <= MaxEntities
MaxEntities == 2
\* World::add_pred is modelled while next_pred_id <= MaxPreds
MaxPreds == 1
\* at most this many predicate iterators are alive at once
MaxIters == 1
\* at most this many PredIters are alive at once where only readers are studied
MaxReaders == 2
\* add_pred is modelled while next_pred_id <= MaxIndexes where several
\* predicates are studied
MaxIndexes == 2

\* World::add is modelled while next_entity_id <= MaxOrdered where the order of
\* the yields is studied
MaxOrdered == 3

\* usize is modelled with this many bits where the predicate counter is driven
\* to its end
UsizeBits == 2

(***************************************************************************)
(* Option<T>: None is the empty sequence, Some(v) the one-element sequence *)
(***************************************************************************)
None == << >>
Some(v) == << v >>
IsSome(o) == o # None
Unwrap(o) == o[1]

(***************************************************************************)
(* Component storage: the closed-set enum of impl_enum_storage!            *)
(***************************************************************************)
\* the variants in declaration order
Variants == << "A", "B", "C" >>
\* sample component values
Values == {5, 8}

Types == {Variants[i] : i \in 1..Len(Variants)}

\* <T as Component<S>>::id(): $cur_idx starts at 0 and grows by one per variant
Component_id(T) == (CHOOSE i \in 1..Len(Variants) : Variants[i] = T) - 1

CompIds == {Component_id(T) : T \in Types}

\* a storage value: the enum's active variant and the value it holds
Storages == [variant : Types, val : Values]

\* Storage::id(&self): the id of the active variant's type
Storage_id(s) == Component_id(s.variant)

\* (defect: the view does not test which variant is active)
Component_get_AnyVariant(T, s) == Some(s.val)
\* Component::get(storage): if let Name::Variant(value) = storage
Component_get(T, s) == IF s.variant = T THEN Some(s.val) ELSE None

\* Component::get_mut(storage): the same test on &mut
Component_get_mut(T, s) == IF s.variant = T THEN Some(s.val) ELSE None

\* *T::get_mut(&mut storage).unwrap() = v, when get_mut is Some
Storage_write(T, s, v) ==
    IF IsSome(Component_get_mut(T, s)) THEN [s EXCEPT !.val = v] ELSE s

(***************************************************************************)
(* Component storage: DynStorage(TypeId, Box<dyn Any>)                     *)
(***************************************************************************)
\* TypeId::of::<T>(): an opaque value, one per type
TypeId_of(T) == << "TypeId", T >>

\* <T as Component<DynStorage>>::id()
DynComponent_id(T) == TypeId_of(T)

\* DynStorage::new(value: T): Self(T::id(), Box::new(value))
DynStorage_new(T, v) == [tid |-> DynComponent_id(T), boxed |-> [type |-> T, val |-> v]]

\* Storage::id(&self) of DynStorage: self.0
DynStorage_id(s) == s.tid

\* Component::get(storage): storage.1.downcast_ref(), which compares the TypeId of
\* the boxed value with that of the requested type
DynComponent_get(U, s) ==
    IF TypeId_of(s.boxed.type) = TypeId_of(U) THEN Some(s.boxed.val) ELSE None

\* Component::get_mut(storage): storage.1.downcast_mut()
DynComponent_get_mut(U, s) ==
    IF TypeId_of(s.boxed.type) = TypeId_of(U) THEN Some(s.boxed.val) ELSE None

\* *U::get_mut(&mut storage).unwrap() = v, when get_mut is Some
DynStorage_write(U, s, v) ==
    IF IsSome(DynComponent_get_mut(U, s)) THEN [s EXCEPT !.boxed.val = v] ELSE s

(***************************************************************************)
(* A storage of either kind, with the type it was built for (held)         *)
(***************************************************************************)
\* the two Storage implementations of the crate
StorageKinds == {"enum", "dyn"}
\* Components::T(v) / DynStorage::new(v)
Sto_new(kind, T, v) ==
    [kind |-> kind, held |-> T,
     s |-> IF kind = "enum" THEN [variant |-> T, val |-> v] ELSE DynStorage_new(T, v)]
\* <T as Component<S>>::id(), tagged with the type of S::Id
Sto_component_id(kind, T) ==
    IF kind = "enum" THEN << "u64", Component_id(T) >> ELSE DynComponent_id(T)
\* Storage::id(&self)
Sto_id(x) ==
    IF x.kind = "enum" THEN << "u64", Storage_id(x.s) >> ELSE DynStorage_id(x.s)
\* U::get(&storage) and U::get_mut(&mut storage)
Sto_get(U, x) ==
    IF x.kind = "enum" THEN Component_get(U, x.s) ELSE DynComponent_get(U, x.s)
Sto_get_mut(U, x) ==
    IF x.kind = "enum" THEN Component_get_mut(U, x.s) ELSE DynComponent_get_mut(U, x.s)
\* *U::get_mut(&mut storage).unwrap() = v, when get_mut is Some
Sto_write(U, x, v) ==
    [x EXCEPT !.s = IF x.kind = "enum" THEN Storage_write(U, x.s, v)
                    ELSE DynStorage_write(U, x.s, v)]

(***************************************************************************)
(* Entity: components: HashMap<S::Id, S>                                   *)
(***************************************************************************)
\* Entity::new(): no components
Entity_new == [i \in {} |-> 0]

\* HashMap::insert(k, v) on a map m
MapInsert(m, k, v) == [x \in DOMAIN m \cup {k} |-> IF x = k THEN v ELSE m[x]]

\* HashMap::remove(k) on a map m
MapRemove(m, k) == [x \in DOMAIN m \ {k} |-> m[x]]

\* HashMap::get(k)
MapGet(m, k) == IF k \in DOMAIN m THEN Some(m[k]) ELSE None

\* the key Entity::add files a storage under: storage.id()
Entity_add_key(s) == Storage_id(s)

\* (defect: an add under a present id keeps the old storage)
Entity_add_KeepOld(e, s) ==
    IF Entity_add_key(s) \in DOMAIN e THEN e ELSE MapInsert(e, Entity_add_key(s), s)
\* Entity::add(storage): the entity afterwards
Entity_add(e, s) == MapInsert(e, Entity_add_key(s), s)

\* Entity::add(storage): the value returned, the storage evicted if any
Entity_add_ret(e, s) == MapGet(e, Entity_add_key(s))

\* (defect: remove_id leaves the component in place)
Entity_remove_id_Noop(e, id) == e
\* Entity::remove_id(id): the entity afterwards
Entity_remove_id(e, id) == MapRemove(e, id)

\* Entity::remove_id(id): the value returned
Entity_remove_id_ret(e, id) == MapGet(e, id)

\* Entity::remove::<C>()
Entity_remove(e, T) == Entity_remove_id(e, Component_id(T))
Entity_remove_ret(e, T) == Entity_remove_id_ret(e, Component_id(T))

\* Entity::get_id(id) and Entity::get_mut_id(id)
Entity_get_id(e, id) == MapGet(e, id)
Entity_get_mut_id(e, id) == MapGet(e, id)

\* Entity::get::<C>(): get_id(C::id()).map(C::get).flatten()
Entity_get(e, T) ==
    LET st == Entity_get_id(e, Component_id(T))
    IN  IF IsSome(st) THEN Component_get(T, Unwrap(st)) ELSE None

\* Entity::get_mut::<C>(): the same two stages on the mutable side
Entity_get_mut(e, T) ==
    LET st == Entity_get_mut_id(e, Component_id(T))
    IN  IF IsSome(st) THEN Component_get(T, Unwrap(st)) ELSE None

\* Entity::has_id(id) and Entity::has::<C>()
Entity_has_id(e, id) == id \in DOMAIN e
Entity_has(e, T) == Entity_has_id(e, Component_id(T))

\* Entity::ids(): the keys, as the set the iterator runs over
Entity_ids(e) == DOMAIN e
\* Entity::components() and components_mut(): HashMap::values() / values_mut()
\* yield one storage per key in an order the map does not specify, so the items
\* are a bag: each storage with the number of keys that hold it
Entity_components(e) ==
    [s \in {e[k] : k \in DOMAIN e} |-> Cardinality({k \in DOMAIN e : e[k] = s})]

\* *entity.get_mut::<C>().unwrap() = v, when get_mut::<C>() is Some
Entity_write(e, T, v) ==
    IF IsSome(Entity_get_mut(e, T))
    THEN [e EXCEPT ![Component_id(T)] = [variant |-> T, val |-> v]]
    ELSE e

(***************************************************************************)
(* EntityId (world/entity_id.rs): a counter with the reserved value 0      *)
(***************************************************************************)
\* EntityId::new(start)
EntityId_new(n) == n
\* EntityId::null(): the id of no entity
EntityId_null == EntityId_new(0)
\* EntityId::is_null(&self)
EntityId_is_null(id) == id = EntityId_null
\* EntityId::inc(&mut self): the next id
EntityId_inc(id) == id + 1

(***************************************************************************)
(* Inputs of the world's operations                                        *)
(***************************************************************************)
\* entity![...]: Entity::new() and one add per listed component, in order
RECURSIVE Entity_from_components(_, _)
Entity_from_components(e, cs) ==
    IF cs = << >> THEN e
    ELSE Entity_from_components(Entity_add(e, Head(cs)), Tail(cs))

\* the component lists of the entities handed to World::add
ComponentLists ==
    { << >>,
      << [variant |-> "A", val |-> 5] >>,
      << [variant |-> "B", val |-> 8] >>,
      << [variant |-> "A", val |-> 5], [variant |-> "B", val |-> 8] >> }

Entities == {Entity_from_components(Entity_new, cs) : cs \in ComponentLists}

\* the closures handed to World::add_pred
PredInputs == {"hasA", "hasAB"}

\* calling a registered predicate on an entity
PredEval(f, e) ==
    CASE f = "hasA"  -> Entity_has(e, "A")
      [] f = "hasAB" -> Entity_has(e, "A") /\ Entity_has(e, "B")

\* what a caller does with a &mut Entity
Mutations ==
    { [kind |-> "add",    variant |-> "A", val |-> 5],
      [kind |-> "add",    variant |-> "B", val |-> 8],
      [kind |-> "write",  variant |-> "A", val |-> 8],
      [kind |-> "remove", variant |-> "A", val |-> 0],
      [kind |-> "remove", variant |-> "B", val |-> 0] }

ApplyMutation(e, m) ==
    CASE m.kind = "add"    -> Entity_add(e, [variant |-> m.variant, val |-> m.val])
      [] m.kind = "remove" -> Entity_remove(e, m.variant)
      [] m.kind = "write"  -> Entity_write(e, m.variant, m.val)

(***************************************************************************)
(* World                                                                   *)
(***************************************************************************)
VARIABLES
    entities,        \* World.entities: HashMap<EntityId, Entity>
    next_entity_id,  \* World.next_entity_id
    predicates,      \* World.predicates: HashMap<usize, PredicateIds>
    next_pred_id,    \* World.next_pred_id
    iters,           \* the live PredIter / PredIterMut values
    alls,            \* the live iterators of iter_all / iter_all_mut
    ret,             \* the last call and what it returned
    fault,           \* a panic has unwound the program
    issued,          \* history: the ids World::add has returned, in order
    tombstoned,      \* history: <<predicate id, entity id>> of the slots set to null
    removed,         \* history: the number of World::remove calls that returned an entity
    ent,             \* an Entity value outside any world
    eret,            \* the last call on ent and what it returned
    sto,             \* a component storage outside any entity, None before one is built
    sret             \* the last call on sto and what it returned

wvars == << entities, next_entity_id, predicates, next_pred_id, iters, alls, ret, fault,
            issued, tombstoned, removed >>
evars == << ent, eret >>
svars == << sto, sret >>
vars == << entities, next_entity_id, predicates, next_pred_id, iters, alls, ret, fault,
           issued, tombstoned, removed, ent, eret, sto, sret >>

\* the ids a caller may pass: null, issued ones, and one never issued
EntityIdArgs == 0..(MaxEntities + 1)
\* the same where World::add is modelled up to MaxOrdered
OrderedIdArgs == 0..(MaxOrdered + 1)
PredIdArgs == 0..(MaxPreds + 1)

\* World::new()
World_new ==
    /\ entities = [i \in {} |-> 0]
    /\ next_entity_id = EntityId_new(1)
    /\ predicates = [i \in {} |-> 0]
    /\ next_pred_id = 1

Init ==
    /\ World_new
    /\ iters = << >>
    /\ alls = << >>
    /\ ret = [op |-> "new", id |-> 0, val |-> None]
    /\ fault = FALSE
    /\ issued = << >>
    /\ tombstoned = {}
    /\ removed = 0
    /\ ent = Entity_new
    /\ eret = [op |-> "new", variant |-> "", v |-> 0, id |-> 0, val |-> None]
    /\ sto = None
    /\ sret = [op |-> "none", variant |-> "", v |-> 0, val |-> None]

\* &mut World is available: no iterator borrows the world
NoBorrow == iters = << >> /\ alls = << >>

\* &World is available: no iterator borrows the world mutably
NoMutBorrow ==
    /\ \A i \in DOMAIN iters : ~iters[i].mut
    /\ \A a \in DOMAIN alls : ~alls[a].mut

\* (defect: the sweep also drops the ids that are no longer keys of the table)
Retain_DropStale(ids) == SelectSeq(ids, LAMBDA x : x \in DOMAIN entities)
\* (defect: the sweep drops nothing)
Retain_KeepAll(ids) == ids
\* ids.retain(|id| !id.get().is_null())
Retain(ids) == SelectSeq(ids, LAMBDA x : ~EntityId_is_null(x))

\* (defect: the id is pushed without calling the predicate)
Add_update_PushAlways(pi, e, id) == Append(Retain(pi.ids), id)
\* (defect: the id pushed is the one after the entity's)
Add_update_PushNext(pi, e, id) ==
    IF PredEval(pi.pred, e) THEN Append(Retain(pi.ids), EntityId_inc(id)) ELSE Retain(pi.ids)
\* (defect: the id is put at the front of the list)
Add_update_Prepend(pi, e, id) ==
    IF PredEval(pi.pred, e) THEN << id >> \o Retain(pi.ids) ELSE Retain(pi.ids)
\* the body of add's loop over the predicates: sweep, test, push
Add_update(pi, e, id) ==
    IF PredEval(pi.pred, e) THEN Append(Retain(pi.ids), id) ELSE Retain(pi.ids)

\* (defect: add takes the lowest id that is not a key of the table)
Add_id_Reuse == CHOOSE i \in 1..next_entity_id : i \notin DOMAIN entities
\* let id = self.next_entity_id: the id add gives the entity
Add_id == next_entity_id

\* (defect: the counter is not advanced)
Add_next_NoInc(id) == id
\* self.next_entity_id.inc(): the counter after add
Add_next(id) == EntityId_inc(id)

\* (defect: add updates the list of the predicate registered first only)
Add_predicates_FirstOnly(e, id) ==
    [p \in DOMAIN predicates |->
        [pred |-> predicates[p].pred,
         ids  |-> IF p = 1 THEN Add_update(predicates[p], e, id) ELSE predicates[p].ids]]
\* for PredicateIds { pred, ids } in self.predicates.values_mut() { .. }: the map
\* of predicates after add's loop
Add_predicates(e, id) ==
    [p \in DOMAIN predicates |->
        [pred |-> predicates[p].pred,
         ids  |-> Add_update(predicates[p], e, id)]]

\* World::add(entity)
Add_insert(e) ==
    /\ ~fault /\ NoBorrow
    /\ LET id == Add_id IN
        /\ next_entity_id' = Add_next(next_entity_id)
        /\ predicates' = Add_predicates(e, id)
        /\ entities' = MapInsert(entities, id, e)
        /\ ret' = [op |-> "add", id |-> id, val |-> None]
        /\ issued' = Append(issued, id)
    /\ UNCHANGED << next_pred_id, iters, fault, tombstoned, removed, alls, evars, svars >>

\* World::add(entity), modelled while next_entity_id <= MaxEntities
Add(e) ==
    /\ next_entity_id <= MaxEntities
    /\ Add_insert(e)

\* the same, while next_entity_id <= MaxOrdered
AddMore(e) ==
    /\ next_entity_id <= MaxOrdered
    /\ Add_insert(e)

\* World::new() as a value
World_value_new ==
    [entities |-> [i \in {} |-> 0], next_entity_id |-> EntityId_new(1),
     predicates |-> [i \in {} |-> 0], next_pred_id |-> 1]

\* world.add(entity) on a world value: the world afterwards
World_value_add(w, e) ==
    LET id == w.next_entity_id IN
    [entities |-> MapInsert(w.entities, id, e),
     next_entity_id |-> Add_next(w.next_entity_id),
     predicates |-> [p \in DOMAIN w.predicates |->
                        [pred |-> w.predicates[p].pred,
                         ids  |-> Add_update(w.predicates[p], e, id)]],
     next_pred_id |-> w.next_pred_id]

\* for entity in entities { world.add(entity); }
RECURSIVE World_add_each(_, _)
World_add_each(w, es) ==
    IF es = << >> THEN w
    ELSE World_add_each(World_value_add(w, Head(es)), Tail(es))

\* (defect: the entities are added last to first)
World_from_entities_Reversed(es) ==
    World_add_each(World_value_new, [i \in 1..Len(es) |-> es[Len(es) + 1 - i]])
\* World::from_entities(entities), which Deserialize calls with the decoded Vec
World_from_entities(es) == World_add_each(World_value_new, es)

\* the entity sequences handed to from_entities: up to MaxEntities entities
RECURSIVE SeqsUpTo(_, _)
SeqsUpTo(S, n) ==
    IF n = 0 THEN {<< >>}
    ELSE LET shorter == SeqsUpTo(S, n - 1)
         IN  shorter \cup {Append(s, x) : s \in shorter, x \in S}

\* world = World::from_entities(es): the variable is bound to the new world
FromEntities(es) ==
    /\ ~fault /\ NoBorrow
    /\ LET w == World_from_entities(es) IN
        /\ entities' = w.entities
        /\ next_entity_id' = w.next_entity_id
        /\ predicates' = w.predicates
        /\ next_pred_id' = w.next_pred_id
        /\ issued' = [i \in 1..Len(es) |-> i]
    /\ ret' = [op |-> "from_entities", id |-> 0, val |-> es]
    /\ tombstoned' = {}
    /\ removed' = 0
    /\ UNCHANGED << iters, fault, alls, evars, svars >>

\* (defect: remove returns the entity and leaves it in the table)
Remove_Soft(id) ==
    /\ ~fault /\ NoBorrow
    /\ entities' = entities
    /\ ret' = [op |-> "remove", id |-> 0, val |-> MapGet(entities, id)]
    /\ removed' = IF IsSome(MapGet(entities, id)) THEN removed + 1 ELSE removed
    /\ UNCHANGED << next_entity_id, predicates, next_pred_id, iters, fault,
                    issued, tombstoned, alls, evars, svars >>
\* (defect: remove also purges the id from every candidate list)
Remove_Eager(id) ==
    /\ ~fault /\ NoBorrow
    /\ entities' = MapRemove(entities, id)
    /\ predicates' = [p \in DOMAIN predicates |->
                         [pred |-> predicates[p].pred,
                          ids  |-> SelectSeq(predicates[p].ids, LAMBDA x : x # id)]]
    /\ ret' = [op |-> "remove", id |-> 0, val |-> MapGet(entities, id)]
    /\ removed' = IF IsSome(MapGet(entities, id)) THEN removed + 1 ELSE removed
    /\ UNCHANGED << next_entity_id, next_pred_id, iters, fault,
                    issued, tombstoned, alls, evars, svars >>
\* World::remove(id)
Remove(id) ==
    /\ ~fault /\ NoBorrow
    /\ entities' = MapRemove(entities, id)
    /\ ret' = [op |-> "remove", id |-> 0, val |-> MapGet(entities, id)]
    /\ removed' = IF IsSome(MapGet(entities, id)) THEN removed + 1 ELSE removed
    /\ UNCHANGED << next_entity_id, predicates, next_pred_id, iters, fault,
                    issued, tombstoned, alls, evars, svars >>

\* every order in which a HashMap with these keys may be iterated
ScanOrders(keys) ==
    {s \in [1..Cardinality(keys) -> keys] : \A i, j \in DOMAIN s : i # j => s[i] # s[j]}

\* (defect: the scan goes over the table twice)
Add_pred_scan_Twice(f, order) ==
    SelectSeq(order \o order, LAMBDA x : PredEval(f, entities[x]))
\* (defect: the scan lists every entity without calling the predicate)
Add_pred_scan_All(f, order) == order
\* add_pred's scan: the ids, in iteration order, of the entities the predicate accepts
Add_pred_scan(f, order) == SelectSeq(order, LAMBDA x : PredEval(f, entities[x]))

\* (defect: the new predicate replaces the ones registered before)
AddPred_register_Replace(f) ==
    /\ ~fault /\ NoBorrow
    /\ \E order \in ScanOrders(DOMAIN entities) :
        LET id == next_pred_id IN
        /\ next_pred_id' = id + 1
        /\ predicates' = MapInsert([i \in {} |-> 0], id,
                                   [pred |-> f, ids |-> Add_pred_scan(f, order)])
        /\ ret' = [op |-> "add_pred", id |-> id, val |-> None]
    /\ UNCHANGED << entities, next_entity_id, iters, fault, issued, tombstoned, removed, alls, evars, svars >>
\* (defect: add_pred sweeps the nulls out of the lists already registered)
AddPred_register_Sweep(f) ==
    /\ ~fault /\ NoBorrow
    /\ \E order \in ScanOrders(DOMAIN entities) :
        LET id == next_pred_id IN
        /\ next_pred_id' = id + 1
        /\ predicates' = MapInsert([p \in DOMAIN predicates |->
                                       [pred |-> predicates[p].pred,
                                        ids  |-> Retain(predicates[p].ids)]],
                                   id, [pred |-> f, ids |-> Add_pred_scan(f, order)])
        /\ ret' = [op |-> "add_pred", id |-> id, val |-> None]
    /\ UNCHANGED << entities, next_entity_id, iters, fault, issued, tombstoned, removed, alls, evars, svars >>
\* World::add_pred(f)
AddPred_register(f) ==
    /\ ~fault /\ NoBorrow
    /\ \E order \in ScanOrders(DOMAIN entities) :
        LET id == next_pred_id IN
        /\ next_pred_id' = id + 1
        /\ predicates' = MapInsert(predicates, id,
                                   [pred |-> f, ids |-> Add_pred_scan(f, order)])
        /\ ret' = [op |-> "add_pred", id |-> id, val |-> None]
    /\ UNCHANGED << entities, next_entity_id, iters, fault, issued, tombstoned, removed, alls, evars, svars >>

\* the same, while next_pred_id <= MaxPreds
AddPred(f) ==
    /\ next_pred_id <= MaxPreds
    /\ AddPred_register(f)

\* the same, while next_pred_id <= MaxIndexes
AddPredMore(f) ==
    /\ next_pred_id <= MaxIndexes
    /\ AddPred_register(f)

\* usize::MAX
UsizeMax == 2^UsizeBits - 1
\* n + 1 on usize without overflow checks: wrapping
Usize_wrapping_inc(n) == (n + 1) % (2^UsizeBits)

\* World::add_pred(f) when next_pred_id is usize::MAX: `self.next_pred_id += 1`
\* overflows; a build with overflow checks (debug) panics there, before anything
\* is inserted, and a build without them (release) wraps to 0 and goes on
AddPred_exhausted(f) ==
    /\ ~fault /\ NoBorrow
    /\ next_pred_id = UsizeMax
    /\ LET id == next_pred_id IN
       \/ /\ fault' = TRUE
          /\ ret' = [op |-> "add_pred", id |-> id, val |-> None]
          /\ UNCHANGED << predicates, next_pred_id >>
       \/ /\ \E order \in ScanOrders(DOMAIN entities) :
                /\ next_pred_id' = Usize_wrapping_inc(id)
                /\ predicates' = MapInsert(predicates, id,
                                           [pred |-> f, ids |-> Add_pred_scan(f, order)])
                /\ ret' = [op |-> "add_pred", id |-> id, val |-> None]
          /\ fault' = fault
    /\ UNCHANGED << entities, next_entity_id, iters, issued, tombstoned, removed, alls, evars, svars >>

\* World::add_pred(f) over the whole range of the counter
AddPredWide(f) ==
    \/ /\ next_pred_id < UsizeMax
       /\ AddPred_register(f)
    \/ AddPred_exhausted(f)

\* World::add_pred(f) with a closure that is not registered yet, while
\* next_pred_id <= MaxIndexes
AddPredOnce(f) ==
    /\ \A p \in DOMAIN predicates : predicates[p].pred # f
    /\ AddPredMore(f)

\* World::add_pred(f) on a world in which no entity satisfies f yet
AddPredFirst(f) ==
    /\ \A id \in DOMAIN entities : ~PredEval(f, entities[id])
    /\ AddPred(f)

\* World::get_mut(id) and the caller's use of the &mut Entity it returns
GetMut(id, m) ==
    /\ ~fault /\ NoBorrow
    /\ entities' = IF id \in DOMAIN entities
                   THEN [entities EXCEPT ![id] = ApplyMutation(@, m)]
                   ELSE entities
    /\ ret' = [op |-> "get_mut", id |-> 0, val |-> MapGet(entities, id)]
    /\ UNCHANGED << next_entity_id, predicates, next_pred_id, iters, fault,
                    issued, tombstoned, removed, alls, evars, svars >>

\* (defect: a lookup of an unknown id files an empty entity under it)
Get_OrInsert(id) ==
    /\ ~fault
    /\ NoMutBorrow
    /\ entities' = IF id \in DOMAIN entities THEN entities
                   ELSE MapInsert(entities, id, Entity_new)
    /\ ret' = [op |-> "get", id |-> id, val |-> MapGet(entities, id)]
    /\ UNCHANGED << next_entity_id, predicates, next_pred_id, iters, fault,
                    issued, tombstoned, removed, alls, evars, svars >>
\* World::get(id): &self, so only a PredIterMut excludes it
Get(id) ==
    /\ ~fault
    /\ NoMutBorrow
    /\ ret' = [op |-> "get", id |-> id, val |-> MapGet(entities, id)]
    /\ UNCHANGED << entities, next_entity_id, predicates, next_pred_id, iters, fault,
                    issued, tombstoned, removed, alls, evars, svars >>

\* (defect: world[id] of an unknown id yields absent instead of panicking)
Index_Lenient(id) ==
    /\ ~fault
    /\ NoMutBorrow
    /\ ret' = [op |-> "index", id |-> id, val |-> MapGet(entities, id)]
    /\ UNCHANGED << entities, next_entity_id, predicates, next_pred_id, iters, fault,
                    issued, tombstoned, removed, alls, evars, svars >>
\* Index::index(&self, id): self.get(id).expect("Unknown entity id")
Index(id) ==
    /\ ~fault
    /\ NoMutBorrow
    /\ ret' = [op |-> "index", id |-> id, val |-> MapGet(entities, id)]
    /\ fault' = ~IsSome(MapGet(entities, id))
    /\ UNCHANGED << entities, next_entity_id, predicates, next_pred_id, iters,
                    issued, tombstoned, removed, alls, evars, svars >>

\* IndexMut::index_mut(&mut self, id): self.get_mut(id).expect("Unknown entity id"),
\* and the caller's use of the &mut Entity it returns
IndexMut(id, m) ==
    /\ ~fault /\ NoBorrow
    /\ entities' = IF id \in DOMAIN entities
                   THEN [entities EXCEPT ![id] = ApplyMutation(@, m)]
                   ELSE entities
    /\ ret' = [op |-> "index_mut", id |-> id, val |-> MapGet(entities, id)]
    /\ fault' = ~IsSome(MapGet(entities, id))
    /\ UNCHANGED << next_entity_id, predicates, next_pred_id, iters,
                    issued, tombstoned, removed, alls, evars, svars >>

\* (defect: the traversal also yields the entities that were removed)
Values_orders_WithRemoved(m) == ScanOrders(DOMAIN m \cup {issued[k] : k \in DOMAIN issued})
\* HashMap::values() / values_mut() run to the end: every entry once, in an order
\* the map does not specify; an entry is named by its key
Values_orders(m) == ScanOrders(DOMAIN m)

\* World::iter_all() (mut = FALSE), World::iter_all_mut() and the deprecated
\* iter_mut_all(), which calls it (mut = TRUE): the iterator of
\* entities.values() / values_mut(), which will run over the table in one of the
\* orders the map may have; modelled while fewer than MaxIters of them are alive
IterAll(mut) ==
    /\ ~fault
    /\ IF mut THEN NoBorrow ELSE NoMutBorrow
    /\ Len(alls) < MaxIters
    /\ \E order \in Values_orders(entities) :
          alls' = Append(alls, [mut |-> mut, order |-> order, pos |-> 0,
                                out |-> << >>, done |-> FALSE])
    /\ ret' = [op |-> "iter_all", id |-> 0, val |-> None]
    /\ UNCHANGED << entities, next_entity_id, predicates, next_pred_id, iters, fault,
                    issued, tombstoned, removed, evars, svars >>

\* next() on the a-th live iterator of iter_all / iter_all_mut
IterAllNext(a) ==
    /\ ~fault
    /\ a \in DOMAIN alls
    /\ LET c    == alls[a]
           item == IF c.pos < Len(c.order) THEN Some(c.order[c.pos + 1]) ELSE None
       IN  /\ alls' = [alls EXCEPT ![a] =
                          [c EXCEPT !.pos = IF IsSome(item) THEN @ + 1 ELSE @,
                                    !.out = IF IsSome(item) THEN Append(@, Unwrap(item)) ELSE @,
                                    !.done = ~IsSome(item)]]
           /\ ret' = [op |-> "all_next", id |-> a, val |-> item]
    /\ UNCHANGED << entities, next_entity_id, predicates, next_pred_id, iters, fault,
                    issued, tombstoned, removed, evars, svars >>

\* the caller's use of a &mut Entity that the a-th iterator, one of iter_all_mut,
\* has yielded
IterAllMutUse(a, id, m) ==
    /\ ~fault
    /\ a \in DOMAIN alls
    /\ alls[a].mut
    /\ \E k \in DOMAIN alls[a].out : alls[a].out[k] = id
    /\ entities' = [entities EXCEPT ![id] = ApplyMutation(@, m)]
    /\ ret' = [op |-> "all_mut_use", id |-> 0, val |-> None]
    /\ UNCHANGED << next_entity_id, predicates, next_pred_id, iters, alls, fault,
                    issued, tombstoned, removed, evars, svars >>

\* iter_all() / iter_all_mut() where one traversal of the table runs at a time
IterAllOne(mut) == alls = << >> /\ IterAll(mut)

\* the a-th iterator of iter_all / iter_all_mut, and every reference it handed
\* out, goes out of scope
IterAllDrop(a) ==
    /\ ~fault
    /\ a \in DOMAIN alls
    /\ alls' = [k \in 1..(Len(alls) - 1) |-> IF k < a THEN alls[k] ELSE alls[k + 1]]
    /\ ret' = [op |-> "all_drop", id |-> 0, val |-> None]
    /\ UNCHANGED << entities, next_entity_id, predicates, next_pred_id, iters, fault,
                    issued, tombstoned, removed, evars, svars >>

(***************************************************************************)
(* Predicate iterators (world/iter.rs)                                     *)
(***************************************************************************)
RECURSIVE Next_stop(_, _)
\* (defect: the loop stops at the first slot without looking the id up)
Next_stop_NoLookup(ids, i) == i
\* the slot next()'s loop stops at, starting from slot i (1-based): the first one
\* whose id is a key of the entity table, or Len(ids) + 1 when there is none
Next_stop(ids, i) ==
    IF i > Len(ids) THEN i
    ELSE IF ids[i] \in DOMAIN entities THEN i
    ELSE Next_stop(ids, i + 1)

\* (defect: every slot of the list whose id is the id of no entity is set to
\* null, also those the loop has not reached)
Next_ids_WholeList(ids, i, j) ==
    [k \in 1..Len(ids) |-> IF ids[k] \in DOMAIN entities THEN ids[k] ELSE EntityId_null]
\* (defect: the slots the loop passes are taken out of the list)
Next_ids_Compact(ids, i, j) ==
    [k \in 1..(Len(ids) - (j - i)) |-> IF k < i THEN ids[k] ELSE ids[k + (j - i)]]
\* (defect: the slot the loop stops at is set to null as well)
Next_ids_Overwrite(ids, i, j) ==
    [k \in 1..Len(ids) |-> IF i <= k /\ k <= j THEN EntityId_null ELSE ids[k]]
\* the candidate list after the loop has run from slot i and stopped at slot j:
\* every slot it passed held the id of no entity and is set to null
Next_ids(ids, i, j) ==
    [k \in 1..Len(ids) |-> IF i <= k /\ k < j THEN EntityId_null ELSE ids[k]]

\* (defect: a next() that finds the list exhausted puts the cursor back to the start)
Next_cur_idx_Rewind(ids, cur_idx, stop) == IF stop <= Len(ids) THEN stop ELSE 0
\* self.cur_idx after the loop has stopped at slot stop: one more per slot visited,
\* and as it was once .get(self.cur_idx) is None
Next_cur_idx(ids, cur_idx, stop) ==
    IF stop <= Len(ids) THEN stop
    ELSE IF cur_idx > Len(ids) THEN cur_idx
    ELSE Len(ids)

\* what one traversal of a candidate list yields when nothing else runs: next()
\* repeated from slot i until it returns None
RECURSIVE PredIter_alone(_, _)
PredIter_alone(ids, i) ==
    LET stop == Next_stop(ids, i)
    IN  IF stop > Len(ids) THEN << >>
        ELSE << ids[stop] >> \o PredIter_alone(Next_ids(ids, i, stop), stop + 1)

\* (defect: the lookup of the predicate never succeeds)
IterPred_found_Never(p) == FALSE
\* self.predicates.get(&id).is_some()
IterPred_found(p) == p \in DOMAIN predicates

\* World::iter_pred(id) (mut = FALSE) and World::iter_pred_mut(id) (mut = TRUE):
\* &self admits other PredIters, &mut self nothing; `alone` is history, what the
\* traversal would yield if it ran on its own from here
IterPred_open(p, mut) ==
    /\ ~fault
    /\ IF mut THEN NoBorrow ELSE NoMutBorrow
    /\ IF IterPred_found(p)
       THEN /\ iters' = Append(iters, [id |-> p, cur_idx |-> 0, mut |-> mut,
                                       out |-> << >>, done |-> FALSE,
                                       alone |-> PredIter_alone(predicates[p].ids, 1)])
            /\ ret' = [op |-> "iter_pred", id |-> p, val |-> Some(0)]
       ELSE /\ iters' = iters
            /\ ret' = [op |-> "iter_pred", id |-> p, val |-> None]
    /\ UNCHANGED << entities, next_entity_id, predicates, next_pred_id, fault,
                    issued, tombstoned, removed, alls, evars, svars >>

\* the same, while fewer than MaxIters iterators are alive
IterPred(p, mut) ==
    /\ Len(iters) < MaxIters
    /\ IterPred_open(p, mut)

\* World::iter_pred(id) while fewer than MaxReaders iterators are alive
IterPredShared(p) ==
    /\ Len(iters) < MaxReaders
    /\ IterPred_open(p, FALSE)

\* World::iter_pred(id) or iter_pred_mut(id) by a caller that keeps one iterator
\* at a time
IterPredOne(p, mut) ==
    /\ NoBorrow
    /\ IterPred_open(p, mut)

\* World::iter_pred_mut(id): &mut self, so no other iterator is alive
IterPredMut(p) == IterPred_open(p, TRUE)

\* PredIter::next and PredIterMut::next on the i-th live iterator
IterNext(i) ==
    /\ ~fault
    /\ i \in DOMAIN iters
    /\ LET c == iters[i] IN
       IF c.id \notin DOMAIN predicates
       THEN \* .expect("Could not get predicate from id")
            /\ fault' = TRUE
            /\ ret' = [op |-> "next", id |-> i, val |-> None]
            /\ UNCHANGED << predicates, iters, tombstoned >>
       ELSE LET ids  == predicates[c.id].ids
                from == c.cur_idx + 1
                stop == Next_stop(ids, from)
                item == IF stop <= Len(ids) THEN Some(ids[stop]) ELSE None
            IN  /\ predicates' = [predicates EXCEPT ![c.id].ids = Next_ids(ids, from, stop)]
                /\ iters' = [iters EXCEPT ![i] =
                                [c EXCEPT !.cur_idx = Next_cur_idx(ids, c.cur_idx, stop),
                                          !.out = IF IsSome(item) THEN Append(@, Unwrap(item)) ELSE @,
                                          !.done = ~IsSome(item)]]
                /\ tombstoned' = tombstoned \cup
                       {<< c.id, ids[k] >> : k \in {k \in from..(stop - 1) :
                                                      ~EntityId_is_null(ids[k])}}
                /\ ret' = [op |-> "next", id |-> i, val |-> item]
                /\ fault' = fault
    /\ UNCHANGED << entities, next_entity_id, next_pred_id, issued, removed, alls, evars, svars >>

\* the i-th live iterator, and every reference it handed out, goes out of scope
IterDrop(i) ==
    /\ ~fault
    /\ i \in DOMAIN iters
    /\ iters' = [k \in 1..(Len(iters) - 1) |-> IF k < i THEN iters[k] ELSE iters[k + 1]]
    /\ ret' = [op |-> "drop", id |-> 0, val |-> None]
    /\ UNCHANGED << entities, next_entity_id, predicates, next_pred_id, fault,
                    issued, tombstoned, removed, alls, evars, svars >>

\* the caller's use of a &mut Entity that the PredIterMut i has yielded
IterMutUse(i, id, m) ==
    /\ ~fault
    /\ i \in DOMAIN iters
    /\ iters[i].mut
    /\ \E k \in DOMAIN iters[i].out : iters[i].out[k] = id
    /\ id \in DOMAIN entities
    /\ entities' = [entities EXCEPT ![id] = ApplyMutation(@, m)]
    /\ ret' = [op |-> "iter_mut_use", id |-> 0, val |-> None]
    /\ UNCHANGED << next_entity_id, predicates, next_pred_id, iters, fault,
                    issued, tombstoned, removed, alls, evars, svars >>

(***************************************************************************)
(* Calls on an Entity value (entity.rs)                                    *)
(***************************************************************************)
\* the component ids a caller may pass: the declared ones and one unknown
CompIdArgs == CompIds \cup {Len(Variants)}

\* entity.add(storage)
EAdd(s) ==
    /\ ent' = Entity_add(ent, s)
    /\ eret' = [op |-> "add", variant |-> s.variant, v |-> s.val, id |-> Storage_id(s),
                val |-> Entity_add_ret(ent, s)]
    /\ UNCHANGED << wvars, svars >>

\* entity.remove::<T>()
ERemove(T) ==
    /\ ent' = Entity_remove(ent, T)
    /\ eret' = [op |-> "remove", variant |-> T, v |-> 0, id |-> Component_id(T),
                val |-> Entity_remove_ret(ent, T)]
    /\ UNCHANGED << wvars, svars >>

\* entity.remove_id(&id)
ERemoveId(id) ==
    /\ ent' = Entity_remove_id(ent, id)
    /\ eret' = [op |-> "remove_id", variant |-> "", v |-> 0, id |-> id,
                val |-> Entity_remove_id_ret(ent, id)]
    /\ UNCHANGED << wvars, svars >>

\* entity.get::<T>()
EGet(T) ==
    /\ ent' = ent
    /\ eret' = [op |-> "get", variant |-> T, v |-> 0, id |-> Component_id(T),
                val |-> Entity_get(ent, T)]
    /\ UNCHANGED << wvars, svars >>

\* entity.get_mut::<T>(), and a write of v through the reference when it is Some
EGetMut(T, v) ==
    /\ ent' = Entity_write(ent, T, v)
    /\ eret' = [op |-> "get_mut", variant |-> T, v |-> v, id |-> Component_id(T),
                val |-> Entity_get_mut(ent, T)]
    /\ UNCHANGED << wvars, svars >>

\* entity.get_mut_id(&id), and an assignment of the storage s through the
\* &mut S when it is Some
EGetMutId(id, s) ==
    /\ ent' = IF Entity_has_id(ent, id) THEN [ent EXCEPT ![id] = s] ELSE ent
    /\ eret' = [op |-> "get_mut_id", variant |-> s.variant, v |-> s.val, id |-> id,
                val |-> Entity_get_mut_id(ent, id)]
    /\ UNCHANGED << wvars, svars >>

\* entity.components_mut(), and an assignment of the storage s through the
\* &mut S the iterator yields for the storage held under k
EComponentsMut(k, s) ==
    /\ k \in Entity_ids(ent)
    /\ ent' = [ent EXCEPT ![k] = s]
    /\ eret' = [op |-> "components_mut", variant |-> s.variant, v |-> s.val, id |-> k,
                val |-> Some(ent[k])]
    /\ UNCHANGED << wvars, svars >>

(***************************************************************************)
(* Calls on a storage value (component.rs, impl_macro.rs, dyn_storage.rs)  *)
(***************************************************************************)
\* Components::T(v) or DynStorage::new(v) with v of type T
SNew(kind, T, v) ==
    /\ sto' = Some(Sto_new(kind, T, v))
    /\ sret' = [op |-> "new", variant |-> T, v |-> v, val |-> None]
    /\ UNCHANGED << wvars, evars >>

\* storage.id()
SId ==
    /\ IsSome(sto)
    /\ sto' = sto
    /\ sret' = [op |-> "id", variant |-> "", v |-> 0, val |-> Some(Sto_id(Unwrap(sto)))]
    /\ UNCHANGED << wvars, evars >>

\* U::get(&storage)
SGet(U) ==
    /\ IsSome(sto)
    /\ sto' = sto
    /\ sret' = [op |-> "get", variant |-> U, v |-> 0, val |-> Sto_get(U, Unwrap(sto))]
    /\ UNCHANGED << wvars, evars >>

\* U::get_mut(&mut storage), and a write of v through the reference when it is Some
SGetMut(U, v) ==
    /\ IsSome(sto)
    /\ sto' = Some(Sto_write(U, Unwrap(sto), v))
    /\ sret' = [op |-> "get_mut", variant |-> U, v |-> v,
                val |-> Sto_get_mut(U, Unwrap(sto))]
    /\ UNCHANGED << wvars, evars >>

(***************************************************************************)
(* Specifications                                                          *)
(***************************************************************************)
\* add, remove, add_pred and predicate iteration
NextWorld ==
    \/ \E e \in Entities : Add(e)
    \/ \E id \in EntityIdArgs : Remove(id)
    \/ \E f \in PredInputs : AddPred(f)
    \/ \E p \in PredIdArgs, mut \in BOOLEAN : IterPred(p, mut)
    \/ \E i \in 1..MaxIters : IterNext(i)
    \/ \E i \in 1..MaxIters : IterDrop(i)

\* every call on a World: the same, from_entities, the lookups get, get_mut,
\* world[id] and &mut world[id], traversal of the whole table, and mutation of
\* stored entities through &mut Entity
Next ==
    \/ NextWorld
    \/ \E id \in EntityIdArgs, m \in Mutations : GetMut(id, m)
    \/ \E i \in 1..MaxIters, id \in EntityIdArgs, m \in Mutations : IterMutUse(i, id, m)
    \/ \E es \in SeqsUpTo(Entities, MaxEntities) : FromEntities(es)
    \/ \E id \in EntityIdArgs : Get(id)
    \/ \E id \in EntityIdArgs : Index(id)
    \/ \E id \in EntityIdArgs, m \in Mutations : IndexMut(id, m)
    \/ \E mut \in BOOLEAN : IterAll(mut)
    \/ \E a \in DOMAIN alls : IterAllNext(a)
    \/ \E a \in DOMAIN alls, id \in DOMAIN entities, m \in Mutations : IterAllMutUse(a, id, m)
    \/ \E a \in DOMAIN alls : IterAllDrop(a)

\* calls on one Entity value
NextEntity ==
    \/ \E s \in Storages : EAdd(s)
    \/ \E T \in Types : ERemove(T)
    \/ \E id \in CompIdArgs : ERemoveId(id)
    \/ \E T \in Types : EGet(T)
    \/ \E T \in Types, v \in Values : EGetMut(T, v)

\* calls on one Entity value, with the accessors that hand out &mut S
NextEntityMut ==
    \/ NextEntity
    \/ \E id \in CompIdArgs, s \in Storages : EGetMutId(id, s)
    \/ \E k \in CompIds, s \in Storages : EComponentsMut(k, s)

\* a smaller choice of inputs: entity![] and entity![A(5)] for World::add and
\* one closure for add_pred
SmallEntities == {Entity_from_components(Entity_new, cs) :
                     cs \in {<< >>, << [variant |-> "A", val |-> 5] >>}}
SmallPreds == {"hasA"}
\* what a caller does with a &mut Entity where one mutation is enough
SmallMutations == {[kind |-> "remove", variant |-> "A", val |-> 0]}
\* the storages handed to Entity::add next to the world's lookups
LookupStorages == {[variant |-> "A", val |-> 5], [variant |-> "B", val |-> 8]}

\* lookups and removals on a world and on an entity value
NextAbsent ==
    \/ \E e \in SmallEntities : Add(e)
    \/ \E id \in EntityIdArgs : Remove(id)
    \/ \E id \in EntityIdArgs : Get(id)
    \/ \E f \in SmallPreds : AddPred(f)
    \/ \E s \in LookupStorages : EAdd(s)
    \/ \E T \in Types : ERemove(T)
    \/ \E id \in CompIdArgs : ERemoveId(id)
    \/ \E T \in Types : EGet(T)

\* direct indexing next to the explicit lookups
NextIndex ==
    \/ \E e \in Entities : Add(e)
    \/ \E id \in EntityIdArgs : Remove(id)
    \/ \E id \in EntityIdArgs : Get(id)
    \/ \E id \in EntityIdArgs, m \in Mutations : GetMut(id, m)
    \/ \E id \in EntityIdArgs : Index(id)
    \/ \E id \in EntityIdArgs, m \in Mutations : IndexMut(id, m)

\* calls on one storage value
NextStorage ==
    \/ \E kind \in StorageKinds, T \in Types, v \in Values : SNew(kind, T, v)
    \/ SId
    \/ \E U \in Types : SGet(U)
    \/ \E U \in Types, v \in Values : SGetMut(U, v)

\* the world's operations and traversals of the whole table, one at a time, next
\* to a predicate iterator opened before them: PredIter::next() runs between
\* two items of iter_all(), and the caller removes A through the &mut Entity of
\* iter_all_mut()
NextAll ==
    \/ \E e \in SmallEntities : Add(e)
    \/ \E id \in EntityIdArgs : Remove(id)
    \/ \E f \in SmallPreds : AddPred(f)
    \/ \E p \in DOMAIN predicates, mut \in BOOLEAN : IterPredOne(p, mut)
    \/ \E i \in DOMAIN iters : IterNext(i)
    \/ \E i \in DOMAIN iters : IterDrop(i)
    \/ \E mut \in BOOLEAN : IterAllOne(mut)
    \/ \E a \in DOMAIN alls : IterAllNext(a)
    \/ \E a \in DOMAIN alls, id \in DOMAIN entities, m \in SmallMutations :
          IterAllMutUse(a, id, m)
    \/ \E a \in DOMAIN alls : IterAllDrop(a)

\* the world's operations where every predicate is registered before the
\* entities that satisfy it are added, with up to MaxOrdered entities and one
\* iterator at a time
NextRegisteredFirst ==
    \/ \E e \in Entities : AddMore(e)
    \/ \E id \in OrderedIdArgs : Remove(id)
    \/ \E f \in PredInputs : AddPredFirst(f)
    \/ \E p \in DOMAIN predicates, mut \in BOOLEAN : IterPredOne(p, mut)
    \/ \E i \in DOMAIN iters : IterNext(i)
    \/ \E i \in DOMAIN iters : IterDrop(i)

\* a world that may be replaced by one built with from_entities
NextRebuild ==
    \/ \E es \in SeqsUpTo(SmallEntities, MaxEntities) : FromEntities(es)
    \/ \E e \in SmallEntities : Add(e)
    \/ \E id \in EntityIdArgs : Remove(id)
    \/ \E f \in SmallPreds : AddPred(f)
    \/ \E p \in PredIdArgs, mut \in BOOLEAN : IterPred(p, mut)
    \/ \E i \in 1..MaxIters : IterNext(i)
    \/ \E i \in 1..MaxIters : IterDrop(i)

\* a world read by several PredIters at once
NextReaders ==
    \/ \E e \in SmallEntities : Add(e)
    \/ \E id \in EntityIdArgs : Remove(id)
    \/ \E f \in SmallPreds : AddPred(f)
    \/ \E p \in PredIdArgs : IterPredShared(p)
    \/ \E i \in 1..MaxReaders : IterNext(i)
    \/ \E i \in 1..MaxReaders : IterDrop(i)

\* a world with several predicates, iterated by one PredIterMut at a time
NextIndexes ==
    \/ \E e \in SmallEntities : Add(e)
    \/ \E id \in EntityIdArgs : Remove(id)
    \/ \E f \in PredInputs : AddPredMore(f)
    \/ \E p \in DOMAIN predicates : IterPredMut(p)
    \/ \E i \in DOMAIN iters : IterNext(i)
    \/ \E i \in DOMAIN iters : IterDrop(i)

\* a world with several predicates, each closure registered once, and entities
\* of every kind, iterated by one PredIterMut at a time
NextAddIndexes ==
    \/ \E e \in Entities : Add(e)
    \/ \E id \in EntityIdArgs : Remove(id)
    \/ \E f \in PredInputs : AddPredOnce(f)
    \/ \E p \in DOMAIN predicates : IterPredMut(p)
    \/ \E i \in DOMAIN iters : IterNext(i)
    \/ \E i \in DOMAIN iters : IterDrop(i)

\* a world with several predicates, iterated by one PredIter or PredIterMut at
\* a time
NextSteps ==
    \/ \E e \in SmallEntities : Add(e)
    \/ \E id \in EntityIdArgs : Remove(id)
    \/ \E f \in SmallPreds : AddPredMore(f)
    \/ \E p \in DOMAIN predicates, mut \in BOOLEAN : IterPredOne(p, mut)
    \/ \E i \in DOMAIN iters : IterNext(i)
    \/ \E i \in DOMAIN iters : IterDrop(i)

\* traversals with the calls a borrowed world admits between two next() calls:
\* get next to a PredIter, use of the yielded &mut Entity next to a PredIterMut
NextTraversal ==
    \/ \E e \in SmallEntities : Add(e)
    \/ \E id \in EntityIdArgs : Remove(id)
    \/ \E id \in DOMAIN entities : Get(id)
    \/ \E f \in SmallPreds : AddPred(f)
    \/ \E p \in DOMAIN predicates, mut \in BOOLEAN : IterPred(p, mut)
    \/ \E i \in DOMAIN iters : IterNext(i)
    \/ \E i \in DOMAIN iters : IterDrop(i)
    \/ \E i \in DOMAIN iters, id \in EntityIdArgs, m \in SmallMutations : IterMutUse(i, id, m)

\* a world whose predicate counter runs over its whole range
NextExhaust ==
    \/ \E e \in SmallEntities : Add(e)
    \/ \E id \in EntityIdArgs : Remove(id)
    \/ \E f \in SmallPreds : AddPredWide(f)

SpecEntity == Init /\ [][NextEntity]_vars
SpecWorld == Init /\ [][NextWorld]_vars
Spec == Init /\ [][Next]_vars
SpecAbsent == Init /\ [][NextAbsent]_vars
SpecIndex == Init /\ [][NextIndex]_vars
SpecStorage == Init /\ [][NextStorage]_vars
SpecAll == Init /\ [][NextAll]_vars
SpecRegisteredFirst == Init /\ [][NextRegisteredFirst]_vars
SpecRebuild == Init /\ [][NextRebuild]_vars
SpecReaders == Init /\ [][NextReaders]_vars
SpecIndexes == Init /\ [][NextIndexes]_vars
SpecSteps == Init /\ [][NextSteps]_vars
SpecAddIndexes == Init /\ [][NextAddIndexes]_vars
SpecTraversal == Init /\ [][NextTraversal]_vars
SpecEntityMut == Init /\ [][NextEntityMut]_vars
SpecExhaust == Init /\ [][NextExhaust]_vars

(***************************************************************************)
(* Helpers of the properties                                               *)
(***************************************************************************)
SeqSet(s) == {s[k] : k \in DOMAIN s}
Count(s, x) == Cardinality({k \in DOMAIN s : s[k] = x})
NoDuplicates(s) == \A i, j \in DOMAIN s : i # j => s[i] # s[j]
\* the entries of s that are not null, in order
NonNull(s) == SelectSeq(s, LAMBDA x : ~EntityId_is_null(x))
\* the position of x in a sequence that holds it once
Pos(s, x) == CHOOSE k \in DOMAIN s : s[k] = x
\* s lists ids in the order in which add returned them, which is ascending
InAddOrder(s) ==
    \A k, l \in DOMAIN s :
        k < l => /\ Pos(issued, s[k]) < Pos(issued, s[l])
                 /\ s[k] < s[l]
\* the entities in the table that the predicate registered as p accepts
Satisfying(p) == {id \in DOMAIN entities : PredEval(predicates[p].pred, entities[id])}
\* the ids in p's candidate list that are not null and not keys of the table
Stale(p) == {x \in SeqSet(predicates[p].ids) : ~EntityId_is_null(x) /\ x \notin DOMAIN entities}

(***************************************************************************)
(* C1..C10                                                                 *)
(***************************************************************************)
\* C1: the ids World::add returns, in call order, start at 1, are strictly
\* increasing and are never the null id, whatever removes, add_preds and
\* iterations happen in between.
C1_AddIdsIncreasing ==
    /\ \A i \in DOMAIN issued : ~EntityId_is_null(issued[i])
    /\ issued # << >> => issued[1] = 1
    /\ \A i, j \in DOMAIN issued : i < j => issued[i] < issued[j]
    /\ ret.op = "add" => ret.id = issued[Len(issued)]

\* a second add has returned, after a predicate was registered
C1_Witness ==
    /\ ret.op = "add" /\ Len(issued) = 2
    /\ DOMAIN predicates # {}

\* C2: an id returned by add differs from every id an earlier add returned,
\* also from the ids of entities removed since, and is not yet a key of the table.
C2_IdsNeverReused ==
    [][(ret'.op = "add" /\ Len(issued') > Len(issued))
         => /\ ret'.id \notin SeqSet(issued)
            /\ ret'.id \notin DOMAIN entities]_vars

\* an add returned 2 after entity 1 had been removed
C2_Witness ==
    /\ ret.op = "add" /\ ret.id = 2
    /\ 1 \notin DOMAIN entities

\* C3: with only add, remove, add_pred and iteration, a predicate traversal that
\* has run to its end has yielded exactly the entities that are in the table and
\* satisfy the predicate, each once; stale entries and tombstones hide none.
C3_TraversalExact ==
    \A i \in DOMAIN iters :
        iters[i].done =>
            /\ NoDuplicates(iters[i].out)
            /\ SeqSet(iters[i].out) = Satisfying(iters[i].id)

\* a finished traversal that yielded an entity and passed a removed one
C3_Witness ==
    \E i \in DOMAIN iters :
        /\ iters[i].done
        /\ iters[i].out # << >>
        /\ \E k \in DOMAIN predicates[iters[i].id].ids :
               EntityId_is_null(predicates[iters[i].id].ids[k])

\* C4 (as claimed): in every state, also after mutation of stored entities, each
\* entity in the table that satisfies a registered predicate has exactly one
\* non-null entry in that predicate's candidate list.
C4_Original ==
    \A p \in DOMAIN predicates :
        \A id \in Satisfying(p) : Count(predicates[p].ids, id) = 1

\* C5: right after add(e) returns id, for each of the registered predicates, of
\* which there are several: if it accepts e then id is the last entry of its list
\* and occurs once, otherwise id is not in the list.
C5_AddUpdatesEveryIndex ==
    ret.op = "add" =>
        \A p \in DOMAIN predicates :
            LET ids == predicates[p].ids IN
            IF PredEval(predicates[p].pred, entities[ret.id])
            THEN /\ ids # << >>
                 /\ ids[Len(ids)] = ret.id
                 /\ Count(ids, ret.id) = 1
            ELSE Count(ids, ret.id) = 0

\* 'has A' and 'has A and has B' registered first, then {A, B} added, then {A}:
\* the first list gained both ids, the second holds only 1
C5_Witness ==
    /\ ret.op = "add" /\ ret.id = 2
    /\ DOMAIN predicates = {1, 2}
    /\ predicates[1].pred = "hasA" /\ predicates[1].ids = << 1, 2 >>
    /\ predicates[2].pred = "hasAB" /\ predicates[2].ids = << 1 >>
    /\ 2 \in DOMAIN entities
    /\ Entity_has(entities[2], "A") /\ ~Entity_has(entities[2], "B")

\* C6: every id a predicate iterator yields is a key of the entity table when it
\* is yielded, and no step of an iterator panics.
C6_YieldsOnlyLive ==
    /\ ~fault
    /\ (ret.op = "next" /\ IsSome(ret.val)) => Unwrap(ret.val) \in DOMAIN entities
    /\ \A i \in DOMAIN iters : SeqSet(iters[i].out) \subseteq DOMAIN entities

\* E1 and E2 added under 'has A', E1 removed: next() passes E1's slot and yields E2
C6_Witness ==
    /\ ret.op = "next" /\ ret.val = Some(2)
    /\ 1 \notin DOMAIN entities
    /\ \E p \in DOMAIN predicates : predicates[p].ids = << EntityId_null, 2 >>

\* C7: a remove changes only the entity table: the predicates with their lists
\* and both id counters are as before, whether or not the id was present.
C7_RemoveFrame ==
    [][ret'.op = "remove"
         => /\ predicates' = predicates
            /\ next_entity_id' = next_entity_id
            /\ next_pred_id' = next_pred_id]_vars

\* a remove has returned an entity whose id is still in a candidate list
C7_Witness ==
    /\ ret.op = "remove" /\ IsSome(ret.val)
    /\ \E p \in DOMAIN predicates : Stale(p) # {}

\* C8 (as claimed): right after an add, no candidate list contains the id of an
\* entity that was removed before it.
C8_Original ==
    ret.op = "add" => \A p \in DOMAIN predicates : Stale(p) = {}

\* C8 (amended): add's sweep drops the null entries and nothing else. Right after
\* an add no list holds a null entry or the id of a slot an iterator has set to
\* null; and every non-null entry a list held before the add is still in it.
C8_SweepDropsOnlyNulls ==
    /\ [](ret.op = "add" =>
            \A p \in DOMAIN predicates :
                \A k \in DOMAIN predicates[p].ids :
                    /\ ~EntityId_is_null(predicates[p].ids[k])
                    /\ << p, predicates[p].ids[k] >> \notin tombstoned)
    /\ [][(ret'.op = "add" /\ Len(issued') > Len(issued))
            => \A p \in DOMAIN predicates :
                   \A x \in SeqSet(predicates[p].ids) :
                       ~EntityId_is_null(x) => x \in SeqSet(predicates'[p].ids)]_vars

\* an add has run after an iterator set the slot of a removed entity to null:
\* the list holds neither that id nor the null
C8_Witness ==
    /\ ret.op = "add"
    /\ \E pr \in tombstoned :
          /\ pr[2] \notin DOMAIN entities
          /\ pr[2] \notin SeqSet(predicates[pr[1]].ids)
          /\ EntityId_null \notin SeqSet(predicates[pr[1]].ids)

\* C9: after add of a storage holding a T value v, get::<T>() and get_mut::<T>()
\* return v, get_id returns that storage and has / has_id are true; after
\* remove::<T>() or remove_id of T's id, get::<T>() is absent and has is false; a
\* new entity has no component and empty iterators; and neither add nor remove
\* changes what is stored under any other id.
C9_AddThenGet_RemoveThenAbsent ==
    /\ [](/\ eret.op = "add" =>
                /\ Entity_get(ent, eret.variant) = Some(eret.v)
                /\ Entity_get_mut(ent, eret.variant) = Some(eret.v)
                /\ Entity_get_id(ent, Component_id(eret.variant))
                       = Some([variant |-> eret.variant, val |-> eret.v])
                /\ Entity_has(ent, eret.variant)
                /\ Entity_has_id(ent, Component_id(eret.variant))
          /\ eret.op = "remove" =>
                /\ Entity_get(ent, eret.variant) = None
                /\ ~Entity_has(ent, eret.variant)
          /\ eret.op = "remove_id" =>
                /\ Entity_get_id(ent, eret.id) = None
                /\ ~Entity_has_id(ent, eret.id)
                /\ \A T \in Types : Component_id(T) = eret.id =>
                       Entity_get(ent, T) = None /\ ~Entity_has(ent, T)
          /\ eret.op = "new" =>
                /\ \A T \in Types :
                       /\ Entity_get(ent, T) = None
                       /\ Entity_get_mut(ent, T) = None
                       /\ Entity_get_id(ent, Component_id(T)) = None
                       /\ ~Entity_has(ent, T)
                /\ Entity_ids(ent) = {}
                /\ Entity_components(ent) = EmptyBag)
    /\ [][eret'.op \in {"add", "remove", "remove_id"}
            => \A id \in CompIdArgs \ {eret'.id} :
                   Entity_get_id(ent', id) = Entity_get_id(ent, id)]_vars

\* remove::<A>() has returned A's storage and left the entity its B component
C9_Witness ==
    /\ eret.op = "remove" /\ eret.variant = "A" /\ IsSome(eret.val)
    /\ Entity_get(ent, "B") = Some(8)

\* C10: an add under an id that is present returns the storage it evicts and
\* leaves the number of components unchanged; an add under an absent id returns
\* absent and adds one component; either way get::<T>() then returns the new value.
C10_AddReplaces ==
    [][eret'.op = "add"
         => /\ Entity_has_id(ent, eret'.id)
                => /\ eret'.val = Some(ent[eret'.id])
                   /\ Cardinality(Entity_ids(ent')) = Cardinality(Entity_ids(ent))
            /\ ~Entity_has_id(ent, eret'.id)
                => /\ eret'.val = None
                   /\ Cardinality(Entity_ids(ent')) = Cardinality(Entity_ids(ent)) + 1
            /\ Entity_get(ent', eret'.variant) = Some(eret'.v)
            /\ BagCardinality(Entity_components(ent')) = Cardinality(Entity_ids(ent'))]_vars

\* A = 5 was stored, add of A = 8 returned it, and get::<A>() is now 8
C10_Witness ==
    /\ eret.op = "add"
    /\ eret.val = Some([variant |-> "A", val |-> 5])
    /\ Entity_get(ent, "A") = Some(8)

(***************************************************************************)
(* C11..C20                                                                *)
(***************************************************************************)
\* C11: World::get and World::remove of an id that is not a key of the table, and
\* Entity::get, Entity::remove and Entity::remove_id of a component the entity
\* does not hold, return absent and change nothing (table, predicates with their
\* lists, both counters, the entity's components); the key is still absent
\* afterwards, so the same call made again returns absent again.
C11_AbsentIsIdempotent ==
    [][/\ (ret'.op \in {"get", "remove"} /\ eret'.op = eret.op) =>
            \A id \in EntityIdArgs :
                (id \notin DOMAIN entities /\ (Get(id) \/ Remove(id)))
                    => /\ ret'.val = None
                       /\ entities' = entities /\ predicates' = predicates
                       /\ next_entity_id' = next_entity_id
                       /\ next_pred_id' = next_pred_id
                       /\ removed' = removed /\ ent' = ent
                       /\ MapGet(entities', id) = None
       /\ (eret'.op \in {"get", "remove"} /\ ret'.op = ret.op) =>
            \A T \in Types :
                (~Entity_has(ent, T) /\ (EGet(T) \/ ERemove(T)))
                    => /\ eret'.val = None
                       /\ ent' = ent
                       /\ entities' = entities /\ predicates' = predicates
                       /\ Entity_get(ent', T) = None
                       /\ Entity_remove_ret(ent', T) = None
       /\ (eret'.op = "remove_id" /\ ret'.op = ret.op) =>
            \A id \in CompIdArgs :
                (~Entity_has_id(ent, id) /\ ERemoveId(id))
                    => /\ eret'.val = None
                       /\ ent' = ent
                       /\ Entity_remove_id_ret(ent', id) = None]_vars

\* get(1) has returned absent after entity 1 was removed while its id is still in
\* a candidate list, and remove::<A>() has returned absent on an entity holding B
C11_Witness ==
    /\ ret.op = "get" /\ ret.id = 1 /\ ret.val = None
    /\ 1 \in SeqSet(issued)
    /\ \E p \in DOMAIN predicates : 1 \in SeqSet(predicates[p].ids)
    /\ eret.op = "remove" /\ eret.variant = "A" /\ eret.val = None
    /\ Entity_has(ent, "B")

\* C12: add_pred returns the counter's value and advances it by one from 1, so
\* the ids returned so far are 1 .. next_pred_id - 1. iter_pred(p) and
\* iter_pred_mut(p) return an iterator at index 0 over p when p is one of them;
\* for every other p (0 included, and any p on a new world) they return absent.
\* Neither outcome is a panic or changes the world.
C12_IterPredAbsentIffUnregistered ==
    /\ [](next_pred_id >= 1 /\ DOMAIN predicates = 1..(next_pred_id - 1))
    /\ [][ret'.op = "add_pred"
            => ret'.id = next_pred_id /\ next_pred_id' = next_pred_id + 1]_vars
    /\ [][\A p \in PredIdArgs, mut \in BOOLEAN :
            (ret'.op = "iter_pred" /\ IterPred(p, mut))
                => /\ IF p \in 1..(next_pred_id - 1)
                      THEN /\ ret'.val = Some(0)
                           /\ Len(iters') = Len(iters) + 1
                           /\ iters'[Len(iters')].id = p
                           /\ iters'[Len(iters')].cur_idx = 0
                           /\ iters'[Len(iters')].mut = mut
                      ELSE /\ ret'.val = None
                           /\ iters' = iters
                   /\ ~fault'
                   /\ entities' = entities /\ predicates' = predicates
                   /\ next_entity_id' = next_entity_id
                   /\ next_pred_id' = next_pred_id]_vars

\* with predicate 1 registered and an entity in the table, iter_pred of an id
\* that add_pred has not returned came back absent
C12_Witness ==
    /\ ret.op = "iter_pred" /\ ret.val = None
    /\ DOMAIN predicates # {} /\ ret.id \notin DOMAIN predicates
    /\ DOMAIN entities # {}
    /\ ~fault

\* C13: world[id], shared or mutable, panics exactly when id is not a key of the
\* entity table (the null id, an id not yet issued, the id of a removed entity)
\* and otherwise returns the entity get(id) returns; get and get_mut never panic
\* and return absent exactly for those ids.
C13_IndexFaultsIffUnknown ==
    [][\A id \in EntityIdArgs :
          /\ (ret'.op = "index" /\ Index(id))
                => /\ fault' <=> id \notin DOMAIN entities
                   /\ id \in DOMAIN entities => ret'.val = Some(entities[id])
                   /\ entities' = entities
          /\ \A m \in Mutations :
                (ret'.op = "index_mut" /\ IndexMut(id, m))
                    => /\ fault' <=> id \notin DOMAIN entities
                       /\ id \in DOMAIN entities => ret'.val = Some(entities[id])
                       /\ id \notin DOMAIN entities => entities' = entities
          /\ (ret'.op = "get" /\ Get(id))
                => /\ ~fault'
                   /\ ret'.val = None <=> id \notin DOMAIN entities
                   /\ id \in DOMAIN entities => ret'.val = Some(entities[id])
          /\ \A m \in Mutations :
                (ret'.op = "get_mut" /\ GetMut(id, m))
                    => /\ ~fault'
                       /\ ret'.val = None <=> id \notin DOMAIN entities
                       /\ id \in DOMAIN entities => ret'.val = Some(entities[id])]_vars

\* world[1] has panicked after entity 1 was removed, with entity 2 in the table
C13_Witness ==
    /\ fault
    /\ ret.op = "index" /\ ret.id = 1
    /\ 1 \in SeqSet(issued) /\ 1 \notin DOMAIN entities
    /\ 2 \in DOMAIN entities

\* C14: for a storage built for a value of type T, of the closed-set enum or
\* a DynStorage: id() is T's component id; the ids of distinct types differ, and
\* those of the closed set are 0, 1, 2 in declaration order; get and get_mut
\* as U are Some exactly when U = T; a new storage shows the value it was built
\* with, a write through get_mut as T is what get then returns, and a get_mut
\* as another type returns absent and leaves the storage as it was. No call
\* panics.
C14_StorageViews ==
    /\ [](/\ ~fault
          /\ \A i \in 1..Len(Variants) : Component_id(Variants[i]) = i - 1
          /\ \A kind \in StorageKinds : \A T, U \in Types :
                 T # U => Sto_component_id(kind, T) # Sto_component_id(kind, U)
          /\ IsSome(sto) =>
                LET x == Unwrap(sto) IN
                /\ Sto_id(x) = Sto_component_id(x.kind, x.held)
                /\ \A U \in Types :
                       /\ IsSome(Sto_get(U, x)) <=> U = x.held
                       /\ Sto_get_mut(U, x) = Sto_get(U, x)
          /\ sret.op = "id" => sret.val = Some(Sto_component_id(Unwrap(sto).kind,
                                                                 Unwrap(sto).held))
          /\ sret.op = "new" => Sto_get(sret.variant, Unwrap(sto)) = Some(sret.v))
    /\ [][/\ sret'.op = "get"
                => /\ sto' = sto
                   /\ sret'.val = Sto_get(sret'.variant, Unwrap(sto))
          /\ sret'.op = "get_mut"
                => IF sret'.variant = Unwrap(sto).held
                   THEN /\ sret'.val = Sto_get(sret'.variant, Unwrap(sto))
                        /\ Sto_get(sret'.variant, Unwrap(sto')) = Some(sret'.v)
                   ELSE /\ sret'.val = None
                        /\ sto' = sto]_vars

\* a DynStorage built with A = 5 was written 8 through get_mut::<A>, and then
\* get::<B> on it returned absent
C14_Witness ==
    /\ IsSome(sto)
    /\ Unwrap(sto).kind = "dyn" /\ Unwrap(sto).held = "A"
    /\ Sto_get("A", Unwrap(sto)) = Some(8)
    /\ sret.op = "get" /\ sret.variant = "B" /\ sret.val = None

\* C15: the table holds as many entities as add was called minus the removes
\* that returned an entity (none on a new world); what a traversal of iter_all
\* or iter_all_mut has yielded are entities of the table, each once, and all of
\* them once next() has returned None, whatever predicates are registered,
\* whatever their lists hold and whatever runs between two items.
C15_IterAllCountsTable ==
    /\ ret.op = "new" => DOMAIN entities = {}
    /\ Cardinality(DOMAIN entities) = Len(issued) - removed
    /\ \A a \in DOMAIN alls :
          /\ NoDuplicates(alls[a].out)
          /\ SeqSet(alls[a].out) \subseteq DOMAIN entities
          /\ alls[a].done =>
                /\ SeqSet(alls[a].out) = DOMAIN entities
                /\ Len(alls[a].out) = Len(issued) - removed

\* two adds and one remove that returned an entity, an iterator has set the
\* removed entity's slot to null, and a traversal of iter_all has yielded the one
\* entity left and ended
C15_Witness ==
    /\ ret.op = "all_next" /\ ret.val = None
    /\ ret.id \in DOMAIN alls
    /\ alls[ret.id].done /\ Len(alls[ret.id].out) = 1
    /\ Len(issued) = 2 /\ removed = 1
    /\ \E p \in DOMAIN predicates : EntityId_null \in SeqSet(predicates[p].ids)

\* C16: when every predicate is registered before the entities that satisfy it
\* are added, each candidate list holds its ids in the order of the adds, which
\* is ascending, and so does what each iterator has yielded, whatever entities
\* were removed and added in between; what it has yielded are entities in the
\* table that satisfy the predicate.
C16_YieldsInAddOrder ==
    /\ \A p \in DOMAIN predicates : InAddOrder(NonNull(predicates[p].ids))
    /\ \A i \in DOMAIN iters :
          /\ InAddOrder(iters[i].out)
          /\ SeqSet(iters[i].out) \subseteq Satisfying(iters[i].id)
          /\ iters[i].done => SeqSet(iters[i].out) = Satisfying(iters[i].id)

\* 'has A and has B' registered on the new world, entities 1 and 2 with both
\* added, 2 removed, a traversal that set its slot to null, entity 3 added, whose
\* add swept the null, and a traversal that yielded 1 then 3 and ended
C16_Witness ==
    \E i \in DOMAIN iters :
        /\ iters[i].done
        /\ iters[i].out = << 1, 3 >>
        /\ predicates[iters[i].id].pred = "hasAB"
        /\ predicates[iters[i].id].ids = << 1, 3 >>
        /\ 2 \in SeqSet(issued) /\ 2 \notin DOMAIN entities

\* the world as a value
World_value ==
    [entities |-> entities, next_entity_id |-> next_entity_id,
     predicates |-> predicates, next_pred_id |-> next_pred_id]

\* C17: right after from_entities(es) with n entities the table holds es[1..n]
\* under the ids 1..n, the next id is n + 1 (which the next add returns) and no
\* predicate is registered, so iter_pred and iter_pred_mut return absent for
\* every id until add_pred is called; and a world on which only add has been
\* called since new is the world from_entities builds from the added entities.
C17_FromEntitiesIsNewThenAdds ==
    /\ [](ret.op = "from_entities" =>
            LET n == Len(ret.val) IN
            /\ DOMAIN entities = 1..n
            /\ \A i \in 1..n : entities[i] = ret.val[i]
            /\ next_entity_id = n + 1
            /\ DOMAIN predicates = {}
            /\ next_pred_id = 1
            /\ \A p \in PredIdArgs : ~IterPred_found(p))
    /\ []((removed = 0 /\ next_pred_id = 1) =>
            World_value = World_from_entities([i \in 1..Len(issued) |-> entities[issued[i]]]))
    /\ [][(ret.op = "from_entities" /\ ret'.op = "add" /\ Len(issued') > Len(issued))
            => ret'.id = Len(ret.val) + 1]_vars
    /\ [][\A p \in PredIdArgs, mut \in BOOLEAN :
            (ret'.op = "iter_pred" /\ next_pred_id = 1 /\ IterPred(p, mut))
                => ret'.val = None]_vars

\* from_entities of entity![A(5)] and entity![] has returned
C17_Witness ==
    /\ ret.op = "from_entities"
    /\ Len(ret.val) = 2
    /\ Entity_has(ret.val[1], "A") /\ ~Entity_has(ret.val[2], "A")
    /\ DOMAIN entities = {1, 2}

\* C18: with several PredIters alive, over the same predicate or not and stepped
\* in any order, what each has yielded so far is the beginning of what it would
\* have yielded running on its own from its creation, and all of it once next()
\* has returned None; the nulls the others write change nothing of it.
C18_ReadersYieldAsAlone ==
    \A i \in DOMAIN iters :
        LET c == iters[i] IN
        /\ Len(c.out) <= Len(c.alone)
        /\ c.out = SubSeq(c.alone, 1, Len(c.out))
        /\ c.done => c.out = c.alone

\* two PredIters over one predicate whose list began with the id of a removed
\* entity: the first set that slot to null and yielded entity 2, then the second
\* read the null, yielded entity 2 and ran to its end
C18_Witness ==
    /\ Len(iters) = 2
    /\ iters[1].id = iters[2].id
    /\ ~iters[1].mut /\ ~iters[2].mut
    /\ iters[1].out = << 2 >> /\ ~iters[1].done
    /\ iters[2].out = << 2 >> /\ iters[2].done
    /\ predicates[iters[1].id].ids = << EntityId_null, 2 >>

\* C19: add_pred(f) returns a new predicate id; the list filed under it holds
\* the id of each entity of the table that satisfies f once, and nothing else
\* (no id of an entity that fails f or is not in the table, no null); the entity
\* table, the next entity id and the predicates registered before, with their
\* lists, are as they were.
C19_AddPredSeedsByScan ==
    [][\A f \in PredInputs :
          (ret'.op = "add_pred" /\ AddPredMore(f))
            => LET new == next_pred_id
                   ids == predicates'[new].ids
               IN  /\ ret'.id = new
                   /\ new \notin DOMAIN predicates
                   /\ DOMAIN predicates' = DOMAIN predicates \cup {new}
                   /\ predicates'[new].pred = f
                   /\ SeqSet(ids) = {id \in DOMAIN entities : PredEval(f, entities[id])}
                   /\ NoDuplicates(ids)
                   /\ EntityId_null \notin SeqSet(ids)
                   /\ entities' = entities
                   /\ next_entity_id' = next_entity_id
                   /\ \A q \in DOMAIN predicates : predicates'[q] = predicates[q]]_vars

\* predicate 1 holds a null in the slot of the removed entity 1; add_pred of
\* 'has A' returned 2 and listed entity 2 alone, and predicate 1's list is as it was
C19_Witness ==
    /\ ret.op = "add_pred" /\ ret.id = 2
    /\ predicates[2].pred = "hasA" /\ predicates[2].ids = << 2 >>
    /\ predicates[1].ids = << EntityId_null, 2 >>
    /\ 1 \in SeqSet(issued) /\ 1 \notin DOMAIN entities

\* C20: a slot of a candidate list becomes null only in a step of an iterator;
\* in every step that is not an add (iterator steps, removes, add_pred, the
\* creation and the end of iterators) each list keeps its length and each null
\* slot stays null; and right after an add no list holds a null.
C20_TombstonesLiveUntilAdd ==
    /\ [](ret.op = "add" =>
            \A p \in DOMAIN predicates : EntityId_null \notin SeqSet(predicates[p].ids))
    /\ [][~(ret'.op = "add" /\ Len(issued') > Len(issued))
            => \A p \in DOMAIN predicates :
                   /\ Len(predicates'[p].ids) = Len(predicates[p].ids)
                   /\ \A k \in DOMAIN predicates[p].ids :
                          /\ EntityId_is_null(predicates[p].ids[k])
                                => EntityId_is_null(predicates'[p].ids[k])
                          /\ (~EntityId_is_null(predicates[p].ids[k])
                                /\ EntityId_is_null(predicates'[p].ids[k]))
                                => ret'.op = "next"]_vars

\* an iterator set the slot of the removed entity 1 to null and was dropped;
\* remove(2) has returned entity 2 and the list still holds the null in its slot
C20_Witness ==
    /\ ret.op = "remove" /\ IsSome(ret.val)
    /\ iters = << >>
    /\ DOMAIN entities = {}
    /\ \E p \in DOMAIN predicates :
          /\ predicates[p].ids = << EntityId_null, 2 >>
          /\ << p, 1 >> \in tombstoned

(***************************************************************************)
(* C21..C29                                                                *)
(***************************************************************************)
\* C21: an add keeps the set of registered predicates, and for each of them the
\* list after the add is the non-null entries of the list before it, in their
\* order and multiplicity, followed by the new id exactly when the predicate
\* accepts the new entity; every entity that was in the table is still in it,
\* unchanged, under its id.
C21_AddSweepsOnlyNulls ==
    [][(ret'.op = "add" /\ Len(issued') > Len(issued))
         => /\ DOMAIN predicates' = DOMAIN predicates
            /\ \A p \in DOMAIN predicates :
                  LET before == NonNull(predicates[p].ids)
                      after  == predicates'[p].ids
                  IN  /\ predicates'[p].pred = predicates[p].pred
                      /\ IF PredEval(predicates[p].pred, entities'[ret'.id])
                         THEN after = Append(before, ret'.id)
                         ELSE after = before
            /\ \A id \in DOMAIN entities :
                  /\ id \in DOMAIN entities'
                  /\ entities'[id] = entities[id]
            /\ DOMAIN entities' = DOMAIN entities \cup {ret'.id}]_vars

\* entity 1 was listed by two predicates and removed; an iterator set its slot
\* in predicate 1's list to null; the add of entity 2 swept that null out and
\* left the unvisited entry of predicate 2's list in place
C21_Witness ==
    /\ ret.op = "add" /\ ret.id = 2
    /\ 1 \notin DOMAIN entities
    /\ DOMAIN predicates = {1, 2}
    /\ << 1, 1 >> \in tombstoned
    /\ predicates[1].ids = << 2 >>
    /\ predicates[2].ids = << 1, 2 >>

\* C22: a step of a predicate iterator, shared or mutable, moves its cursor past
\* the slots it visited, which are stale but for the last one when an entity is
\* yielded, and sets each visited slot whose id is not a key of the table to
\* null. The table, the length of the list, its other slots, the lists of the
\* other predicates and both id counters are as before.
C22_NextStepFrame ==
    [][ret'.op = "next"
         => /\ ret'.id \in DOMAIN iters
            /\ Len(iters') = Len(iters)
            /\ LET i    == ret'.id
                   c    == iters[i]
                   p    == c.id
                   ids  == predicates[p].ids
                   from == c.cur_idx + 1
                   to   == iters'[i].cur_idx
               IN  /\ ~fault'
                   /\ iters'[i].id = p /\ iters'[i].mut = c.mut
                   /\ c.cur_idx <= to /\ to <= Len(ids)
                   /\ \A k \in from..(to - 1) : ids[k] \notin DOMAIN entities
                   /\ IF IsSome(ret'.val)
                      THEN /\ to >= from
                           /\ ids[to] = Unwrap(ret'.val)
                           /\ ids[to] \in DOMAIN entities
                      ELSE /\ to = Len(ids)
                           /\ \A k \in from..to : ids[k] \notin DOMAIN entities
                   /\ DOMAIN predicates' = DOMAIN predicates
                   /\ predicates'[p].pred = predicates[p].pred
                   /\ Len(predicates'[p].ids) = Len(ids)
                   /\ \A k \in DOMAIN ids :
                         predicates'[p].ids[k] =
                             IF from <= k /\ k <= to /\ ids[k] \notin DOMAIN entities
                             THEN EntityId_null ELSE ids[k]
                   /\ \A q \in DOMAIN predicates \ {p} : predicates'[q] = predicates[q]
                   /\ entities' = entities
                   /\ next_entity_id' = next_entity_id
                   /\ next_pred_id' = next_pred_id]_vars

\* two predicates list entities 1 and 2 and entity 1 was removed: next() on an
\* iterator over predicate 1 set the first slot to null and yielded entity 2,
\* and predicate 2's list still holds both ids
C22_Witness ==
    /\ ret.op = "next" /\ ret.val = Some(2)
    /\ ret.id \in DOMAIN iters
    /\ iters[ret.id].id = 1 /\ iters[ret.id].cur_idx = 2
    /\ DOMAIN predicates = {1, 2}
    /\ predicates[1].ids = << EntityId_null, 2 >>
    /\ predicates[2].ids = << 1, 2 >>
    /\ DOMAIN entities = {2}

\* C23: a cursor never passes the end of its list and has yielded at most as
\* many entities as slots it has visited; a next() visits at most the slots
\* that remain, and visits at least one when it yields; once next() has returned
\* None, a later next() on that iterator returns None and changes nothing; no
\* step moves a cursor back or reopens a finished traversal, the list an
\* iterator runs over keeps its length, and iter_pred / iter_pred_mut hand out
\* a new cursor at position 0 that has yielded nothing.
C23_TraversalEnds ==
    /\ [](\A i \in DOMAIN iters :
             LET c == iters[i] IN
             /\ c.cur_idx <= Len(predicates[c.id].ids)
             /\ Len(c.out) <= c.cur_idx
             /\ c.done => c.cur_idx = Len(predicates[c.id].ids))
    /\ [][ret'.op = "next"
            => LET i == ret'.id
                   c == iters[i]
                   visited == iters'[i].cur_idx - c.cur_idx
               IN  /\ visited \in 0..(Len(predicates[c.id].ids) - c.cur_idx)
                   /\ IsSome(ret'.val) =>
                         /\ visited >= 1
                         /\ iters'[i].out = Append(c.out, Unwrap(ret'.val))
                   /\ ~IsSome(ret'.val) =>
                         /\ iters'[i].done
                         /\ iters'[i].out = c.out
                   /\ c.done =>
                         /\ ret'.val = None
                         /\ iters'[i] = c
                         /\ predicates' = predicates]_vars
    /\ [][ret'.op \notin {"drop", "iter_pred"}
            => /\ Len(iters') = Len(iters)
               /\ \A i \in DOMAIN iters :
                     /\ iters'[i].id = iters[i].id
                     /\ iters'[i].cur_idx >= iters[i].cur_idx
                     /\ iters[i].done => iters'[i].done
                     /\ Len(predicates'[iters[i].id].ids) = Len(predicates[iters[i].id].ids)]_vars
    /\ [][(ret'.op = "iter_pred" /\ IsSome(ret'.val))
            => /\ Len(iters') = Len(iters) + 1
               /\ \A i \in DOMAIN iters : iters'[i] = iters[i]
               /\ iters'[Len(iters')].cur_idx = 0
               /\ iters'[Len(iters')].out = << >>
               /\ ~iters'[Len(iters')].done]_vars

\* a PredIterMut over a list of two entries yielded entity 2 alone, the caller
\* took the A component off it through the reference, and next() has returned
\* None with the cursor at the end of the list
C23_Witness ==
    /\ ret.op = "next" /\ ret.val = None
    /\ ret.id \in DOMAIN iters
    /\ iters[ret.id].mut /\ iters[ret.id].done
    /\ iters[ret.id].out = << 2 >>
    /\ iters[ret.id].cur_idx = 2
    /\ Len(predicates[iters[ret.id].id].ids) = 2
    /\ 2 \in DOMAIN entities /\ ~Entity_has(entities[2], "A")

\* C24: the k-th add_pred returns k, an id no predicate is filed under yet; a
\* predicate once registered stays registered with the same closure through
\* every add, remove, add_pred and iterator step; iter_pred and iter_pred_mut
\* of a registered id return an iterator over that id; and every live iterator
\* finds its predicate, so no step of it panics.
C24_PredicatesLiveOn ==
    /\ [](/\ ~fault
          /\ DOMAIN predicates = 1..(next_pred_id - 1)
          /\ \A i \in DOMAIN iters : iters[i].id \in DOMAIN predicates)
    /\ [][ret'.op = "add_pred"
            => /\ ret'.id = Cardinality(DOMAIN predicates) + 1
               /\ ret'.id \notin DOMAIN predicates
               /\ ret'.id \in DOMAIN predicates']_vars
    /\ [][\A p \in DOMAIN predicates :
             /\ p \in DOMAIN predicates'
             /\ predicates'[p].pred = predicates[p].pred]_vars
    /\ [][(ret'.op = "iter_pred" /\ ret'.id \in DOMAIN predicates)
            => /\ IsSome(ret'.val)
               /\ Len(iters') = Len(iters) + 1
               /\ iters'[Len(iters')].id = ret'.id
               /\ predicates' = predicates]_vars

\* predicates 1 and 2 are registered; since then two entities were added, one
\* removed and a slot of predicate 1's list set to null by a traversal, and
\* iter_pred(1) has returned an iterator over predicate 1
C24_Witness ==
    /\ ret.op = "iter_pred" /\ ret.id = 1 /\ IsSome(ret.val)
    /\ iters # << >> /\ iters[Len(iters)].id = 1 /\ iters[Len(iters)].cur_idx = 0
    /\ DOMAIN predicates = {1, 2}
    /\ Len(issued) = 2 /\ removed = 1
    /\ << 1, 1 >> \in tombstoned
    /\ predicates[2].ids = << 1, 2 >>

\* C25: the ids add has returned are 1 .. next_entity_id - 1; every key of the
\* entity table and every non-null entry of a candidate list is one of them,
\* whether or not its entity is still in the table; and the null id is not a
\* key of the table.
C25_IdsWereIssued ==
    /\ SeqSet(issued) = 1..(next_entity_id - 1)
    /\ DOMAIN entities \subseteq SeqSet(issued)
    /\ EntityId_null \notin DOMAIN entities
    /\ \A p \in DOMAIN predicates :
          \A k \in DOMAIN predicates[p].ids :
              LET x == predicates[p].ids[k] IN
              ~EntityId_is_null(x) =>
                  /\ x \in SeqSet(issued)
                  /\ 1 <= x /\ x < next_entity_id

\* entity 1 was removed and its id is still an entry of a candidate list, next
\* to the id of entity 2, which is in the table
C25_Witness ==
    /\ next_entity_id = 3
    /\ DOMAIN entities = {2}
    /\ \E p \in DOMAIN predicates : SeqSet(predicates[p].ids) = {1, 2}

\* C26: remove(id) of an id in the table returns the entity stored under it,
\* takes that entry out and leaves the other entries and the next entity id as
\* they were; an id that add has returned and that is not in the table is not
\* in the table after any step, whatever is added, and get and get_mut of it
\* return absent.
C26_RemovedStaysAbsent ==
    /\ [][\A id \in EntityIdArgs :
             (ret'.op = "remove" /\ id \in DOMAIN entities /\ Remove(id))
                => /\ ret'.val = Some(entities[id])
                   /\ DOMAIN entities' = DOMAIN entities \ {id}
                   /\ \A o \in DOMAIN entities \ {id} : entities'[o] = entities[o]
                   /\ next_entity_id' = next_entity_id]_vars
    /\ [][\A id \in SeqSet(issued) \ DOMAIN entities :
             /\ id \notin DOMAIN entities'
             /\ (ret'.op = "get" /\ Get(id)) => ret'.val = None
             /\ \A m \in Mutations :
                   (ret'.op = "get_mut" /\ GetMut(id, m)) => ret'.val = None]_vars
    /\ [](ret.op = "add" => ret.id \in DOMAIN entities)

\* entity 1 was removed, a later add returned 2, and get(1) has returned absent
C26_Witness ==
    /\ ret.op = "get" /\ ret.id = 1 /\ ret.val = None
    /\ issued = << 1, 2 >> /\ removed = 1
    /\ DOMAIN entities = {2}

\* C27 (as claimed): in every entity reached by add, remove, remove_id, get_mut,
\* get_mut_id and components_mut, each storage held under a key k reports
\* id() = k, and has::<T>() is true exactly when get::<T>() returns a value.
C27_Original ==
    /\ \A k \in Entity_ids(ent) : Storage_id(ent[k]) = k
    /\ \A T \in Types : Entity_has(ent, T) <=> IsSome(Entity_get(ent, T))

\* C28: no id but null occurs twice in a candidate list, and what a PredIter or a
\* PredIterMut has yielded holds no entity twice, so the &mut Entity references
\* of one PredIterMut are to different entities.
C28_NoEntityTwice ==
    /\ \A p \in DOMAIN predicates :
          \A x \in SeqSet(predicates[p].ids) :
              ~EntityId_is_null(x) => Count(predicates[p].ids, x) = 1
    /\ \A i \in DOMAIN iters :
          \A k, l \in DOMAIN iters[i].out :
              k # l => iters[i].out[k] # iters[i].out[l]

\* a PredIterMut has yielded two entities and reached the end of its list
C28_Witness ==
    \E i \in DOMAIN iters :
        /\ iters[i].mut /\ iters[i].done
        /\ SeqSet(iters[i].out) = {1, 2}
        /\ Len(predicates[iters[i].id].ids) = 2

\* C29 (as claimed): no add returns the null id or an id an earlier add
\* returned, and no add_pred that returns, also at the end of the counter's
\* range, returns an id a predicate is already filed under or changes a
\* predicate registered before.
C29_Original ==
    /\ [](/\ \A i \in DOMAIN issued : ~EntityId_is_null(issued[i])
          /\ \A i, j \in DOMAIN issued : i # j => issued[i] # issued[j])
    /\ [][(ret'.op = "add_pred" /\ ~fault')
            => /\ ret'.id \notin DOMAIN predicates
               /\ \A q \in DOMAIN predicates :
                     /\ q \in DOMAIN predicates'
                     /\ predicates'[q] = predicates[q]]_vars

====
